---- MODULE Spec2Model ----
(***************************************************************************)
(* The notification service of main.py: the start-up configuration check,  *)
(* the sheet parser of get_todays_schedule and the tick loop of            *)
(* notification_loop.                                                      *)
(*                                                                         *)
(* Python strings are sequences of one-character strings, so that upper(), *)
(* the substring test `in`, concatenation and strftime are computed.       *)
(* Wall-clock time is a number of minutes since midnight of day 0 in the   *)
(* configured timezone.                                                    *)
(***************************************************************************)
EXTENDS Integers, Sequences, FiniteSets, TLC

VARIABLES
    TELEGRAM_BOT_TOKEN,   \* environment value or None (line 31)
    TELEGRAM_CHAT_ID,     \* environment value or None (line 32)
    GOOGLE_SHEET_KEY,     \* environment value or None (line 33)
    pc,                   \* "Idle", "Running" or "Stopped"
    gspread_client,       \* "client" or None (line 131)
    schedule,             \* list of {"time", "activity"} (lines 133, 143)
    last_hour_checked,    \* lines 134, 144
    notified_tasks,       \* set of task keys (lines 135, 145, 167)
    clock,                \* the wall clock at its latest reading
    current_time,         \* the reading of line 139 in the latest tick
    all_data,             \* the rows of the latest worksheet.get_all_values()
    fetched,              \* what the latest get_todays_schedule call returned
    fetch_status,         \* how that call ended, "none" before the first call
    today_str,            \* the date the latest call asked for (line 80)
    refreshed,            \* whether the latest tick took the branch of line 141
    schedule_before,      \* schedule when the latest tick began
    notified_before,      \* notified_tasks when the latest tick began
    sent,                 \* every send_telegram_notification call so far
    ticks,                \* number of loop iterations so far
    refreshes,            \* number of times line 141 was taken so far
    stalled               \* whether the loop has stalled between two ticks

vars == <<TELEGRAM_BOT_TOKEN, TELEGRAM_CHAT_ID, GOOGLE_SHEET_KEY, pc,
          gspread_client, schedule, last_hour_checked, notified_tasks, clock,
          current_time, all_data, fetched, fetch_status, today_str, refreshed,
          schedule_before, notified_before, sent, ticks, refreshes,
          stalled>>

-----------------------------------------------------------------------------
(* Bounds *)

\* loop iterations explored
MaxTicks == 3
\* largest number of minutes the wall clock gains between two ordinary ticks
MaxAdvance == 2
\* largest number of minutes between a reading of the clock and the reading
\* that follows it inside the same step (the calls in between take time)
MaxFetchDelay == 1
\* longest sheet handed to the parser on its own
MaxRows == 4

-----------------------------------------------------------------------------
(* Python values *)

\* None: no string has an element that is not a single character
None == <<"None">>

\* bool(x) of an environment value: None and "" are falsy
Truthy(x) == x # None /\ x # <<>>

\* all([...]) of line 42
all(xs) == \A i \in DOMAIN xs : Truthy(xs[i])

\* sub in s, for strings
Contains(sub, s) ==
    \E i \in 0..(Len(s) - Len(sub)) : SubSeq(s, i + 1, i + Len(sub)) = sub

UpperChar(c) ==
    CASE c = "a" -> "A" [] c = "b" -> "B" [] c = "c" -> "C" [] c = "d" -> "D"
      [] c = "e" -> "E" [] c = "f" -> "F" [] c = "g" -> "G" [] c = "h" -> "H"
      [] c = "i" -> "I" [] c = "j" -> "J" [] c = "k" -> "K" [] c = "l" -> "L"
      [] c = "m" -> "M" [] c = "n" -> "N" [] c = "o" -> "O" [] c = "p" -> "P"
      [] c = "q" -> "Q" [] c = "r" -> "R" [] c = "s" -> "S" [] c = "t" -> "T"
      [] c = "u" -> "U" [] c = "v" -> "V" [] c = "w" -> "W" [] c = "x" -> "X"
      [] c = "y" -> "Y" [] c = "z" -> "Z" [] OTHER -> c

\* s.upper()
upper(s) == [i \in DOMAIN s |-> UpperChar(s[i])]

-----------------------------------------------------------------------------
(* The clock: datetime.now(tz) and its fields *)

MinutesPerHour == 60
HoursPerDay == 24
MinutesPerDay == HoursPerDay * MinutesPerHour

\* current_time.hour
Hour(t) == (t \div MinutesPerHour) % HoursPerDay

\* current_time.minute
Minute(t) == t % MinutesPerHour

\* strftime("%Y-%m-%d"): the calendar day, as its number
Date(t) == t \div MinutesPerDay

Digit(n) ==
    CASE n = 0 -> "0" [] n = 1 -> "1" [] n = 2 -> "2" [] n = 3 -> "3"
      [] n = 4 -> "4" [] n = 5 -> "5" [] n = 6 -> "6" [] n = 7 -> "7"
      [] n = 8 -> "8" [] n = 9 -> "9"

\* a zero-padded two-digit field of strftime
TwoDigits(n) == <<Digit(n \div 10), Digit(n % 10)>>

\* %I: the hour of the 12-hour clock
Hour12(t) == IF Hour(t) % 12 = 0 THEN 12 ELSE Hour(t) % 12

\* %p
AmPm(t) == IF Hour(t) < 12 THEN <<"A", "M">> ELSE <<"P", "M">>

\* current_time.strftime("%I:%M %p")
strftime_I_M_p(t) ==
    TwoDigits(Hour12(t)) \o <<":">> \o TwoDigits(Minute(t)) \o <<" ">> \o AmPm(t)

\* line 156
current_time_str_12hr(t) == upper(strftime_I_M_p(t))

-----------------------------------------------------------------------------
(* String literals of the program and of the sheets explored *)

FlexibleMarker == <<"F","l","e","x","i","b","l","e"," ","T","a","s","k","s">>
TimeMarker == <<"T","i","m","e">>
ScheduleMarker == <<"S","c","h","e","d","u","l","e">>
Placeholder == <<"-","-","-">>
KeySeparator == <<"-">>

sActivityHdr == <<"A","c","t","i","v","i","t","y">>
s0900 == <<"0","9",":","0","0">>
s0930 == <<"0","9",":","3","0">>
s0945 == <<"0","9",":","4","5">>
s0900AM == <<"0","9",":","0","0"," ","A","M">>
s0900am == <<"0","9",":","0","0"," ","a","m">>
s0901AM == <<"0","9",":","0","1"," ","A","M">>
sStandup == <<"S","t","a","n","d","u","p">>
sReview == <<"R","e","v","i","e","w">>
sEmail == <<"E","m","a","i","l">>
sRead == <<"R","e","a","d">>
sExercise == <<"E","x","e","r","c","i","s","e">>
sToken == <<"t","o","k">>
s900AM == <<"9",":","0","0"," ","A","M">>
s1200AM == <<"1","2",":","0","0"," ","A","M">>
sBackup == <<"B","a","c","k","u","p">>

-----------------------------------------------------------------------------
(* get_todays_schedule: the parser, lines 86-107 *)

\* line 92: the row that starts the flexible section
IsFlexibleHeader(row) == Len(row) > 1 /\ Contains(FlexibleMarker, row[1])

\* line 97
IsFlexibleRow(row) == row # <<>> /\ row[1] # <<>>

\* line 100
IsTimedRow(row) ==
    /\ Len(row) > 1
    /\ row[1] # <<>>
    /\ ~Contains(TimeMarker, row[1])
    /\ ~Contains(ScheduleMarker, row[1])

\* line 102 without the placeholder test
IsRealActivity_NoPlaceholder(activity) == activity # <<>>

\* line 102
IsRealActivity(activity) == activity # <<>> /\ activity # Placeholder

\* lines 86-88
ParseStart ==
    [timed_schedule |-> <<>>, flexible_tasks |-> <<>>, parsing_flexible |-> FALSE]

\* one iteration of the loop of line 90
ParseRow(st, row) ==
    IF IsFlexibleHeader(row)
    THEN [st EXCEPT !.parsing_flexible = TRUE]
    ELSE IF st.parsing_flexible
    THEN IF IsFlexibleRow(row)
         THEN [st EXCEPT !.flexible_tasks = Append(@, row[1])]
         ELSE st
    ELSE IF IsTimedRow(row) /\ IsRealActivity(row[2])
    THEN [st EXCEPT !.timed_schedule =
                        Append(@, [time |-> row[1], activity |-> row[2]])]
    ELSE st

RECURSIVE ParseFrom(_, _, _)
\* the loop of lines 90-103 from row i on
ParseFrom(st, rows, i) ==
    IF i > Len(rows) THEN st ELSE ParseFrom(ParseRow(st, rows[i]), rows, i + 1)

\* lines 86-107: the pair returned for the rows all_data
ParseRows(rows) ==
    LET st == ParseFrom(ParseStart, rows, 1)
    IN  [timed |-> st.timed_schedule, flexible |-> st.flexible_tasks]

\* an except clause that hands back rows instead of [], []
FetchFailed_Stale ==
    [timed |-> <<[time |-> s0900AM, activity |-> sStandup]>>, flexible |-> <<>>]

\* lines 109-114: both except clauses return [], []
FetchFailed == [timed |-> <<>>, flexible |-> <<>>]

\* line 77
NoClient == [timed |-> <<>>, flexible |-> <<>>]

\* lines 78, 109-114: whether an exception raised inside the try block
\* leaves get_todays_schedule; except Exception catches every one
FetchPropagates(kind) == FALSE

\* what the schedule source answers to one fetch: the rows of today's
\* worksheet, WorksheetNotFound, or any other exception
Outcome(kind, rows) == [kind |-> kind, rows |-> rows]

\* lines 75-114
get_todays_schedule(client, outcome) ==
    IF client = None THEN NoClient
    ELSE IF outcome.kind = "rows" THEN ParseRows(outcome.rows)
    ELSE FetchFailed

\* how the call ended
FetchStatus(client, outcome) == IF client = None THEN "noclient" ELSE outcome.kind

-----------------------------------------------------------------------------
(* The worksheets explored.  get_all_values() pads every row to the width   *)
(* of the sheet.                                                            *)

SheetA ==
    << <<TimeMarker, sActivityHdr>>,
       <<s0900AM, sStandup>>,
       <<s0900am, sReview>>,
       <<s0901AM, sEmail>>,
       <<s1200AM, sBackup>>,
       <<FlexibleMarker, <<>>>>,
       <<sRead, <<>>>>,
       <<sExercise, <<>>>> >>

SheetDup ==
    << <<s0900AM, sStandup>>,
       <<s0900AM, sStandup>>,
       <<s0900AM, sReview>>,
       <<s900AM, sEmail>>,
       <<s0901AM, Placeholder>> >>

Sheets == {SheetA, SheetDup}

FetchOutcomes ==
    {Outcome("NotFound", <<>>), Outcome("Error", <<>>)}
        \cup {Outcome("rows", sh) : sh \in Sheets}

\* the rows handed to the parser on its own
ParserRows ==
    { <<s0900, sStandup>>, <<FlexibleMarker>>, <<sRead>>, <<sExercise>>,
      <<s0930, Placeholder>>, <<s0945>>, <<>>, <<FlexibleMarker, <<>>>>,
      <<TimeMarker, sActivityHdr>>, <<<<>>, sStandup>>, <<s0945, <<>>>>,
      <<s0901AM, sEmail>> }

RECURSIVE SeqsUpTo(_, _)
SeqsUpTo(S, n) ==
    IF n = 0 THEN {<<>>}
    ELSE LET shorter == SeqsUpTo(S, n - 1)
         IN  shorter \cup {Append(q, x) : q \in shorter, x \in S}

-----------------------------------------------------------------------------
(* notification_loop *)

\* line 42 without the sheet key
check_env_variables_NoSheetKey(token, chat_id, sheet_key) ==
    all(<<token, chat_id>>)

\* lines 40-45
check_env_variables(token, chat_id, sheet_key) ==
    all(<<token, chat_id, sheet_key>>)

\* gspread.authorize(creds), line 63
Client == <<"Client">>

\* line 163 with the time alone as the key
task_key_TimeOnly(task) == task.time

\* line 163
task_key(task) == task.time \o KeySeparator \o task.activity

\* line 164 without upper() on the task's time
IsDue_CaseSensitive(task, now_str, notified) ==
    task.time = now_str /\ task_key(task) \notin notified

\* line 164 without the test of notified_tasks
IsDue_NoDedup(task, now_str, notified) == upper(task.time) = now_str

\* line 164
IsDue(task, now_str, notified) ==
    upper(task.time) = now_str /\ task_key(task) \notin notified

\* line 167 as an assignment of a new one-element set
MarkNotified_Replace(notified, key, delivered) == {key}

\* line 167 reached only when the send was delivered
MarkNotified_IfDelivered(notified, key, delivered) ==
    IF delivered THEN notified \cup {key} ELSE notified

\* line 167, reached whether or not the send was delivered
MarkNotified(notified, key, delivered) == notified \cup {key}

\* line 145 left out
ClearNotified_Keep(notified) == notified

\* line 145
ClearNotified(notified) == {}

\* line 165 (the bell emoji left out)
ReminderMessage(activity) ==
    <<"Reminder: It's time for '">> \o activity \o <<"'">>

\* lines 150-153 with message_parts started anew for every task
FlexibleSummary_LastOnly(flexible_tasks) ==
    <<" hourly flexible task reminder:",
      <<" ", " ", "-", " ">> \o flexible_tasks[Len(flexible_tasks)]>>

\* lines 150-153: the lines that "\n".join puts together
FlexibleSummary(flexible_tasks) ==
    <<" hourly flexible task reminder:">>
        \o [i \in DOMAIN flexible_tasks |-> <<" ", " ", "-", " ">> \o flexible_tasks[i]]

\* lines 117-122: the call returns normally whether bot.send_message raised
\* or not; the record of the call is appended to the history
send_telegram_notification(log, call) == Append(log, call)

\* lines 118-122 without the except clause
SendPropagates_Uncaught(delivered) == ~delivered

\* lines 118-122: whether a failure of bot.send_message leaves
\* send_telegram_notification; except Exception catches every one
SendPropagates(delivered) == FALSE

\* line 133 followed by the digest of lines 149-154
StartupSends_Digest(flexible_tasks) ==
    IF flexible_tasks # <<>>
    THEN <<[tick |-> 0, epoch |-> 0, at |-> 0, kind |-> "digest",
            key |-> None, time |-> None,
            message |-> FlexibleSummary(flexible_tasks), ok |-> TRUE]>>
    ELSE <<>>

\* line 133: the flexible tasks of the initial load are dropped, nothing is
\* sent for them
StartupSends(flexible_tasks) == <<>>

RECURSIVE RunSchedule_Reversed(_, _, _, _, _)
\* line 162 iterating over reversed(schedule): step i handles the task of
\* row Len(sched) + 1 - i
RunSchedule_Reversed(sched, i, st, oks, stamp) ==
    IF i > Len(sched) THEN st
    ELSE LET row == Len(sched) + 1 - i
         IN  IF IsDue(sched[row], stamp.now_str, st.notified)
             THEN RunSchedule_Reversed(sched, i + 1,
                      [notified |-> MarkNotified(st.notified, task_key(sched[row]), oks[row]),
                       log |-> send_telegram_notification(st.log,
                                  [tick |-> stamp.tick, epoch |-> stamp.epoch,
                                   at |-> stamp.at, kind |-> "reminder",
                                   key |-> task_key(sched[row]),
                                   time |-> sched[row].time,
                                   message |-> ReminderMessage(sched[row].activity),
                                   ok |-> oks[row]])],
                      oks, stamp)
             ELSE RunSchedule_Reversed(sched, i + 1, st, oks, stamp)

RECURSIVE RunSchedule(_, _, _, _, _)
\* the loop of lines 162-167 from task i on; st holds notified_tasks and the
\* history of sends, stamp the fields of the history common to this tick
RunSchedule(sched, i, st, oks, stamp) ==
    IF i > Len(sched) THEN st
    ELSE IF IsDue(sched[i], stamp.now_str, st.notified)
    THEN RunSchedule(sched, i + 1,
             [notified |-> MarkNotified(st.notified, task_key(sched[i]), oks[i]),
              log |-> send_telegram_notification(st.log,
                         [tick |-> stamp.tick, epoch |-> stamp.epoch,
                          at |-> stamp.at, kind |-> "reminder",
                          key |-> task_key(sched[i]),
                          time |-> sched[i].time,
                          message |-> ReminderMessage(sched[i].activity),
                          ok |-> oks[i]])],
             oks, stamp)
    ELSE RunSchedule(sched, i + 1, st, oks, stamp)

\* a wall-clock time: day, hour and minute
TimeAt(day, hour, minute) == day * MinutesPerDay + hour * MinutesPerHour + minute

\* when the process starts: one minute before the morning tasks of the
\* sheets, and one minute before midnight
StartTimes == {TimeAt(0, 8, 59), TimeAt(0, 23, 59)}

\* the environment: unset, set to the empty string, or set
EnvValues == {None, <<>>, sToken}

\* a stalled loop (the host suspended, a network call hanging): one minute
\* short of a whole day
Stall == MinutesPerDay - 1

\* minutes the wall clock may gain from one tick's reading to the next: none
\* (the first tick follows start-up at once; later, the clock was set back
\* during the sleep), one, a few when the tick's own work adds to the sleep
\* of line 169, or a stall
Advances == (0..MaxAdvance) \cup {Stall}

NoFetch == [timed |-> <<>>, flexible |-> <<>>]

Init ==
    /\ TELEGRAM_BOT_TOKEN \in EnvValues
    /\ TELEGRAM_CHAT_ID \in EnvValues
    /\ GOOGLE_SHEET_KEY \in EnvValues
    /\ pc = "Idle"
    /\ gspread_client = None
    /\ schedule = <<>>
    /\ last_hour_checked = None
    /\ notified_tasks = {}
    /\ clock \in StartTimes
    /\ current_time = None
    /\ all_data = <<>>
    /\ fetched = NoFetch
    /\ fetch_status = "none"
    /\ today_str = None
    /\ refreshed = FALSE
    /\ schedule_before = <<>>
    /\ notified_before = {}
    /\ sent = <<>>
    /\ ticks = 0
    /\ refreshes = 0
    /\ stalled = FALSE

\* line 126 with a missing setting: return before anything else is done
StartupStops ==
    /\ pc = "Idle"
    /\ ~check_env_variables(TELEGRAM_BOT_TOKEN, TELEGRAM_CHAT_ID, GOOGLE_SHEET_KEY)
    /\ pc' = "Stopped"
    /\ UNCHANGED <<TELEGRAM_BOT_TOKEN, TELEGRAM_CHAT_ID, GOOGLE_SHEET_KEY,
                   gspread_client, schedule, last_hour_checked, notified_tasks,
                   clock, current_time, all_data, fetched, fetch_status,
                   today_str, refreshed, schedule_before, notified_before,
                   sent, ticks,
                   refreshes, stalled>>

\* lines 126-135: the client (or None when authentication fails), the
\* initial fetch whose flexible tasks are dropped, the hour read after it
Startup ==
    /\ pc = "Idle"
    /\ check_env_variables(TELEGRAM_BOT_TOKEN, TELEGRAM_CHAT_ID, GOOGLE_SHEET_KEY)
    /\ \E client \in {Client, None}, outcome \in FetchOutcomes,
          delay \in 0..MaxFetchDelay :
          \E result \in {get_todays_schedule(client, outcome)} :
              /\ gspread_client' = client
              /\ fetched' = result
              /\ fetch_status' = FetchStatus(client, outcome)
              /\ all_data' = IF client = None THEN all_data ELSE outcome.rows
              /\ today_str' = IF client = None THEN today_str ELSE Date(clock)
              /\ schedule' = result.timed
              /\ clock' = clock + delay
              /\ last_hour_checked' = Hour(clock + delay)
              /\ sent' = sent \o StartupSends(result.flexible)
              /\ pc' = IF client # None /\ FetchPropagates(outcome.kind)
                       THEN "Stopped" ELSE "Running"
    /\ notified_tasks' = {}
    /\ UNCHANGED <<TELEGRAM_BOT_TOKEN, TELEGRAM_CHAT_ID, GOOGLE_SHEET_KEY,
                   current_time, refreshed, schedule_before, notified_before,
                   ticks, refreshes, stalled>>

\* lines 149-154: the digest, sent when the fetch gave flexible tasks
SendDigest(log, flexible_tasks, ok, stamp) ==
    IF flexible_tasks # <<>>
    THEN send_telegram_notification(log,
             [tick |-> stamp.tick, epoch |-> stamp.epoch, at |-> stamp.at,
              kind |-> "digest", key |-> None, time |-> None,
              message |-> FlexibleSummary(flexible_tasks), ok |-> ok])
    ELSE log

\* lines 156-167 and the bookkeeping common to both kinds of tick; raised
\* says whether an exception has left the fetch of this tick.  An exception
\* that leaves a call ends notification_loop
Dispatch(now, sched, notified, log, oks, stamp, raised) ==
    \E done \in {RunSchedule(sched, 1, [notified |-> notified, log |-> log],
                              oks, stamp)} :
    LET escaped == \E j \in (Len(sent) + 1)..Len(done.log) :
                       ~done.log[j].ok /\ SendPropagates(done.log[j].ok)
    IN  /\ pc' = IF raised \/ escaped THEN "Stopped" ELSE pc
        /\ schedule' = sched
        /\ notified_tasks' = done.notified
        /\ sent' = done.log
        /\ current_time' = now
        /\ schedule_before' = schedule
        /\ notified_before' = notified_tasks
        /\ ticks' = ticks + 1
        /\ UNCHANGED <<TELEGRAM_BOT_TOKEN, TELEGRAM_CHAT_ID, GOOGLE_SHEET_KEY,
                       gspread_client>>

Stamp(now, epoch) ==
    [tick |-> ticks + 1, epoch |-> epoch, at |-> now,
     now_str |-> current_time_str_12hr(now)]

\* whether bot.send_message succeeds, for each send a tick may make: entry 0
\* for the digest, entry i for task i (fixed to TRUE where no send can happen)
SendOutcomes(sched, flexible_tasks, now) ==
    UNION {{[i \in 0..Len(sched) |-> IF i \in quiet THEN TRUE ELSE oks[i]] :
               oks \in [(0..Len(sched)) \ quiet -> BOOLEAN]} :
             quiet \in {{i \in 0..Len(sched) :
                            IF i = 0 THEN flexible_tasks = <<>>
                            ELSE upper(sched[i].time) # now_str} :
                        now_str \in {current_time_str_12hr(now)}}}

\* line 141 with > in place of !=
HourChanged_Later(hour, last_hour) == hour > last_hour

\* line 141
HourChanged(hour, last_hour) == hour # last_hour

\* one iteration of lines 137-169 in which the hour is the one last seen
TickSameHour ==
    /\ pc = "Running"
    /\ ticks < MaxTicks
    /\ \E adv \in Advances :
          LET now == clock + adv
          IN  /\ ~HourChanged(Hour(now), last_hour_checked)
              /\ \E oks \in SendOutcomes(schedule, <<>>, now) :
                    /\ clock' = now
                    /\ stalled' = (stalled \/ adv = Stall)
                    /\ refreshed' = FALSE
                    /\ UNCHANGED <<last_hour_checked, all_data, fetched,
                                   fetch_status, today_str, refreshes>>
                    /\ Dispatch(now, schedule, notified_tasks, sent, oks,
                                Stamp(now, refreshes), FALSE)

\* one iteration of lines 137-169 in which the hour has changed: lines
\* 142-154, then the matching of lines 156-167 on the new schedule
TickNewHour ==
    /\ pc = "Running"
    /\ ticks < MaxTicks
    /\ \E adv \in Advances, outcome \in FetchOutcomes,
          delay \in 0..MaxFetchDelay :
          LET now == clock + adv
          IN  /\ HourChanged(Hour(now), last_hour_checked)
              /\ \E result \in {get_todays_schedule(gspread_client, outcome)} :
                 \E oks \in SendOutcomes(result.timed, result.flexible, now) :
                    /\ clock' = now
                    /\ stalled' = (stalled \/ adv = Stall)
                    /\ refreshed' = TRUE
                    /\ refreshes' = refreshes + 1
                    /\ fetched' = result
                    /\ fetch_status' = FetchStatus(gspread_client, outcome)
                    /\ all_data' = IF gspread_client = None THEN all_data
                                   ELSE outcome.rows
                    /\ today_str' = IF gspread_client = None THEN today_str
                                    ELSE Date(now + delay)
                    /\ last_hour_checked' = Hour(now)
                    /\ Dispatch(now, result.timed,
                                ClearNotified(notified_tasks),
                                SendDigest(sent, result.flexible, oks[0],
                                           Stamp(now, refreshes + 1)),
                                oks, Stamp(now, refreshes + 1),
                                gspread_client # None
                                    /\ FetchPropagates(outcome.kind))

Next == StartupStops \/ Startup \/ TickSameHour \/ TickNewHour

Spec == Init /\ [][Next]_vars

-----------------------------------------------------------------------------
(* The parser on its own: get_todays_schedule called with a client on every *)
(* sheet of up to MaxRows rows of ParserRows                                *)

ParserInit ==
    /\ TELEGRAM_BOT_TOKEN = sToken
    /\ TELEGRAM_CHAT_ID = sToken
    /\ GOOGLE_SHEET_KEY = sToken
    /\ pc = "Idle"
    /\ gspread_client = Client
    /\ schedule = <<>>
    /\ last_hour_checked = None
    /\ notified_tasks = {}
    /\ clock \in StartTimes
    /\ current_time = None
    /\ all_data \in SeqsUpTo(ParserRows, MaxRows)
    /\ fetched = NoFetch
    /\ fetch_status = "none"
    /\ today_str = None
    /\ refreshed = FALSE
    /\ schedule_before = <<>>
    /\ notified_before = {}
    /\ sent = <<>>
    /\ ticks = 0
    /\ refreshes = 0
    /\ stalled = FALSE

ParseSheet ==
    /\ fetch_status = "none"
    /\ fetched' = get_todays_schedule(gspread_client, Outcome("rows", all_data))
    /\ fetch_status' = FetchStatus(gspread_client, Outcome("rows", all_data))
    /\ today_str' = Date(clock)
    /\ UNCHANGED <<TELEGRAM_BOT_TOKEN, TELEGRAM_CHAT_ID, GOOGLE_SHEET_KEY, pc,
                   gspread_client, schedule, last_hour_checked, notified_tasks,
                   clock, current_time, all_data, refreshed, schedule_before,
                   notified_before, sent, ticks,
                   refreshes, stalled>>

ParserNext == ParseSheet

ParserSpec == ParserInit /\ [][ParserNext]_vars

-----------------------------------------------------------------------------
(* Observations on the history *)

\* the reminder sends for key k made since refresh number e (0: start-up)
RemindersOf(k, e) ==
    {j \in DOMAIN sent :
        sent[j].kind = "reminder" /\ sent[j].key = k /\ sent[j].epoch = e}

\* the reminder sends for key k made on calendar day d
RemindersOn(k, d) ==
    {j \in DOMAIN sent :
        sent[j].kind = "reminder" /\ sent[j].key = k /\ Date(sent[j].at) = d}

\* the sends of the latest tick
TickSends == SelectSeq(sent, LAMBDA call : call.tick = ticks)

\* the rows of the cached schedule whose time the latest tick observed
Observed ==
    IF ticks = 0 THEN {}
    ELSE {i \in DOMAIN schedule :
             upper(schedule[i].time) = current_time_str_12hr(current_time)}

SentKeys == {sent[j].key : j \in DOMAIN sent}

-----------------------------------------------------------------------------
(* C1 Idempotent delivery: between two consecutive refreshes no task key is  *)
(* sent more than once, and a task of the cached schedule whose time the     *)
(* latest tick observed has been sent exactly once since the last refresh,   *)
(* however many ticks observed that minute.                                  *)
IdempotentDelivery ==
    /\ \A k \in SentKeys, e \in 0..refreshes : Cardinality(RemindersOf(k, e)) <= 1
    /\ \A i \in Observed :
          Cardinality(RemindersOf(task_key(schedule[i]), refreshes)) = 1

\* a tick observes, without a refresh, the minute of a task that an earlier
\* tick has already sent
IdempotentDeliveryWitness ==
    /\ ~refreshed
    /\ \E i \in Observed :
          \E j \in RemindersOf(task_key(schedule[i]), refreshes) :
              sent[j].tick < ticks

(* C2 Exactly once per day: no task key is sent twice on one calendar day,   *)
(* and when a tick with the schedule already loaded (no refresh), coming no  *)
(* more than MaxAdvance minutes after the previous tick's reading, finds the *)
(* clock                                                                     *)
(* at or past a minute that matches a task and that came after the previous  *)
(* reading, that task has been sent on that day.                             *)
ExactlyOncePerDay ==
    [][ticks' = ticks + 1 =>
          /\ \A k \in SentKeys', d \in 0..Date(clock') :
                Cardinality(RemindersOn(k, d)') <= 1
          /\ ticks >= 1 /\ ~refreshed' /\ clock' <= clock + MaxAdvance =>
                \A i \in DOMAIN schedule, m \in (clock + 1)..clock' :
                    upper(schedule[i].time) = current_time_str_12hr(m)
                        => RemindersOn(task_key(schedule[i]), Date(m))' # {}
       ]_vars

\* the reminder sends of the latest tick
TickReminders == SelectSeq(TickSends, LAMBDA call : call.kind = "reminder")

TickReminderKeys == {TickReminders[j].key : j \in DOMAIN TickReminders}

FetchFailures == {"NotFound", "Error"}

(* C3 A failed fetch keeps the state: after a tick whose refresh fetch       *)
(* failed, the schedule is the one cached before the tick and no key has     *)
(* left the notified set.                                                    *)
FailedRefreshKeepsState ==
    refreshed /\ fetch_status \in FetchFailures =>
        schedule = schedule_before /\ notified_before \subseteq notified_tasks

(* C4 Refresh clears de-duplication: after a tick that refreshed, the        *)
(* notified set holds the keys sent in that tick and no other, and every     *)
(* task of the new schedule whose time the tick observed was sent in that    *)
(* tick, whatever was notified before.                                       *)
RefreshClearsDedup ==
    refreshed =>
        /\ notified_tasks = TickReminderKeys
        /\ \A i \in Observed : task_key(schedule[i]) \in TickReminderKeys

\* a tick that refreshed has sent a task again that had been sent, and its
\* key notified, before that refresh
RefreshClearsDedupWitness ==
    /\ refreshed
    /\ \E i \in Observed :
          /\ task_key(schedule[i]) \in TickReminderKeys
          /\ \E j \in DOMAIN sent :
                /\ sent[j].key = task_key(schedule[i])
                /\ sent[j].epoch < refreshes

(* C5 A failed send is swallowed: the key of a failed send is in the         *)
(* notified set until the next refresh and is sent once only in between,     *)
(* the tasks after it in the same tick are still handled (every observed     *)
(* task has been sent and is in the notified set), and the loop is running.  *)
SendFailureSwallowed ==
    /\ sent # <<>> => pc = "Running"
    /\ \A j \in DOMAIN sent :
          sent[j].kind = "reminder" /\ ~sent[j].ok =>
              /\ Cardinality(RemindersOf(sent[j].key, sent[j].epoch)) = 1
              /\ sent[j].epoch = refreshes =>
                    /\ sent[j].key \in notified_tasks
                    /\ \A i \in Observed :
                          /\ task_key(schedule[i]) \in notified_tasks
                          /\ RemindersOf(task_key(schedule[i]), refreshes) # {}

\* a send failed, a later task of the same tick was sent, and a later tick
\* observed the same minute without a refresh
SendFailureSwallowedWitness ==
    /\ ~refreshed
    /\ \E j, j2 \in DOMAIN sent :
          /\ j < j2
          /\ sent[j].kind = "reminder" /\ sent[j2].kind = "reminder"
          /\ ~sent[j].ok
          /\ sent[j].tick = sent[j2].tick
          /\ sent[j].tick < ticks
          /\ sent[j].at = current_time
          /\ sent[j].epoch = refreshes

\* the (time, activity) pairs of the observed rows
ObservedPairs == {<<schedule[i].time, schedule[i].activity>> : i \in Observed}

\* none of the observed rows was notified when the latest tick began matching
NothingNotifiedYet ==
    refreshed \/ \A i \in Observed : task_key(schedule[i]) \notin notified_before

(* C6 as claimed: in a tick that observes a time with nothing notified yet,  *)
(* every row of the schedule with that time produces its own send and its    *)
(* own entry of the notified set.                                            *)
EveryRowFires ==
    ticks > 0 /\ NothingNotifiedYet =>
        /\ Len(TickReminders) = Cardinality(Observed)
        /\ Cardinality(TickReminderKeys) = Cardinality(Observed)

(* C6 amended: in a tick that observes a time with nothing notified yet,     *)
(* every distinct (time, activity) pair among the rows with that time        *)
(* produces exactly one send and one entry of the notified set; rows that    *)
(* repeat a pair share its send.                                             *)
EveryPairFires ==
    ticks > 0 /\ NothingNotifiedYet =>
        /\ Len(TickReminders) = Cardinality(ObservedPairs)
        /\ Cardinality(TickReminderKeys) = Cardinality(ObservedPairs)
        /\ TickReminderKeys \subseteq notified_tasks
        /\ \A i \in Observed : task_key(schedule[i]) \in TickReminderKeys

\* two rows with the same time string and different activities were both
\* sent in the latest tick
EveryPairFiresWitness ==
    \E i, i2 \in Observed :
        /\ schedule[i].time = schedule[i2].time
        /\ schedule[i].activity # schedule[i2].activity
        /\ \E j, j2 \in DOMAIN TickReminders :
              /\ j # j2
              /\ TickReminders[j].key = task_key(schedule[i])
              /\ TickReminders[j2].key = task_key(schedule[i2])

-----------------------------------------------------------------------------
(* The parser *)

ExampleRows == << <<s0900, sStandup>>, <<FlexibleMarker>>, <<sRead>>, <<sExercise>> >>

\* the rows whose first cell contains the marker "Flexible Tasks"
MarkerRows ==
    {i \in DOMAIN all_data :
        all_data[i] # <<>> /\ Contains(FlexibleMarker, all_data[i][1])}

\* the first of them
FirstMarker == CHOOSE i \in MarkerRows : \A i2 \in MarkerRows : i <= i2

FirstCells(rows) == [k \in DOMAIN rows |-> rows[k][1]]

HasFirstCell(row) == row # <<>> /\ row[1] # <<>>

\* the conditions of a timed row
Qualifies(row) ==
    /\ Len(row) >= 2
    /\ row[1] # <<>>
    /\ ~Contains(TimeMarker, row[1])
    /\ ~Contains(ScheduleMarker, row[1])
    /\ row[2] # <<>>
    /\ row[2] # Placeholder

TasksOf(rows) == [k \in DOMAIN rows |-> [time |-> rows[k][1], activity |-> rows[k][2]]]

(* C7 Parser section boundary: rows after the first row whose first cell     *)
(* contains "Flexible Tasks" give the flexible tasks (the first cell of each *)
(* row that has a non-empty one, in order), that row and the rows after it   *)
(* give no timed task, and the example sheet parses to one timed task and    *)
(* the flexible tasks Read, Exercise.                                        *)
ParserSectionBoundary ==
    fetch_status = "rows" =>
        /\ MarkerRows # {} =>
              /\ fetched.flexible =
                    FirstCells(SelectSeq(
                        SubSeq(all_data, FirstMarker + 1, Len(all_data)),
                        HasFirstCell))
              /\ fetched.timed =
                    TasksOf(SelectSeq(SubSeq(all_data, 1, FirstMarker - 1),
                                      Qualifies))
        /\ all_data = ExampleRows =>
              fetched = [timed |-> <<[time |-> s0900, activity |-> sStandup]>>,
                         flexible |-> <<sRead, sExercise>>]

(* C8 Timed rows: the timed tasks are the tasks of the first so many of the  *)
(* rows that have two cells, a non-empty time that is no header marker and a *)
(* non-empty activity other than "---", in the order of the rows; a sheet    *)
(* with no "Flexible Tasks" cell gives the tasks of all of them, the other   *)
(* rows being skipped.                                                       *)
TimedRowsContract ==
    fetch_status = "rows" =>
        LET good == TasksOf(SelectSeq(all_data, Qualifies))
        IN  /\ \E n \in 0..Len(good) : fetched.timed = SubSeq(good, 1, n)
            /\ MarkerRows = {} => fetched.timed = good

\* a placeholder row, a one-cell row and an empty-activity row between two
\* tasks were skipped
TimedRowsContractWitness ==
    /\ fetch_status = "rows"
    /\ all_data = << <<s0900, sStandup>>, <<s0930, Placeholder>>, <<s0945>>,
                     <<s0901AM, sEmail>> >>
    /\ fetched.timed = << [time |-> s0900, activity |-> sStandup],
                          [time |-> s0901AM, activity |-> sEmail] >>

-----------------------------------------------------------------------------
(* Start-up and fetch failures *)

Absent(x) == x = None

(* C9 Missing configuration halts start-up: with the token, the chat id or   *)
(* the sheet key absent the loop is never running, and no client is made, no *)
(* fetch and no send happens.                                                *)
MissingConfigHalts ==
    Absent(TELEGRAM_BOT_TOKEN) \/ Absent(TELEGRAM_CHAT_ID) \/ Absent(GOOGLE_SHEET_KEY) =>
        /\ pc \in {"Idle", "Stopped"}
        /\ gspread_client = None
        /\ fetch_status = "none"
        /\ sent = <<>>
        /\ ticks = 0

\* stopped with the sheet key alone absent
MissingConfigHaltsWitness ==
    /\ pc = "Stopped"
    /\ Absent(GOOGLE_SHEET_KEY)
    /\ ~Absent(TELEGRAM_BOT_TOKEN) /\ TELEGRAM_BOT_TOKEN # <<>>
    /\ ~Absent(TELEGRAM_CHAT_ID) /\ TELEGRAM_CHAT_ID # <<>>

(* C10 Fetch failure is not fatal: after a fetch that failed the loop is     *)
(* running with an empty or the previous schedule and the next tick can be   *)
(* taken, and no reminder is sent until a later refresh; after a failed      *)
(* initial load the schedule is empty.                                       *)
FetchFailureNonFatal ==
    fetch_status \in FetchFailures =>
        /\ pc = "Running"
        /\ ticks < MaxTicks => ENABLED (TickSameHour \/ TickNewHour)
        /\ schedule = <<>> \/ (refreshed /\ schedule = schedule_before)
        /\ refreshes = 0 => schedule = <<>>
        /\ \A j \in DOMAIN sent :
              sent[j].kind = "reminder" => sent[j].epoch < refreshes

\* the initial load failed and a tick has since observed 09:00 of the day
\* the loop started, sending nothing
FetchFailureNonFatalWitness ==
    /\ fetch_status \in FetchFailures
    /\ refreshes = 0
    /\ ticks >= 1
    /\ current_time = TimeAt(0, 9, 0)
    /\ sent = <<>>

-----------------------------------------------------------------------------
(* The flexible digest *)

\* the digest sends of the latest tick
TickDigests == SelectSeq(TickSends, LAMBDA call : call.kind = "digest")

\* the flexible section of the sheet last fetched: the first cells that are
\* not empty of the rows after the marker row, in sheet order
FlexibleSection ==
    IF MarkerRows = {} THEN <<>>
    ELSE FirstCells(SelectSeq(SubSeq(all_data, FirstMarker + 1, Len(all_data)),
                              HasFirstCell))

\* the text of a line of the digest after its "  - "
Description(line) == SubSeq(line, 5, Len(line))

(* C11 Flexible digest: a tick that refreshed and fetched flexible tasks     *)
(* sends exactly one digest, whose lines after the heading are the flexible  *)
(* descriptions of the sheet in sheet order; a tick that refreshed with no   *)
(* flexible task fetched or with a failed fetch, and a tick that did not     *)
(* refresh, send no digest.                                                  *)
FlexibleDigest ==
    ticks > 0 =>
        /\ refreshed /\ fetch_status = "rows" /\ FlexibleSection # <<>> =>
              /\ Len(TickDigests) = 1
              /\ Len(TickDigests[1].message) = 1 + Len(FlexibleSection)
              /\ \A i \in DOMAIN FlexibleSection :
                    Description(TickDigests[1].message[i + 1]) = FlexibleSection[i]
        /\ refreshed /\ fetch_status = "rows" /\ FlexibleSection = <<>> =>
              TickDigests = <<>>
        /\ refreshed /\ fetch_status # "rows" => TickDigests = <<>>
        /\ ~refreshed => TickDigests = <<>>
        /\ \A j \in DOMAIN sent :
              sent[j].kind = "digest" => sent[j].epoch >= 1

\* a tick that refreshed has sent one digest with two descriptions
FlexibleDigestWitness ==
    /\ refreshed
    /\ Len(TickDigests) = 1
    /\ Len(FlexibleSection) = 2
    /\ TickDigests[1].message[2] = <<" ", " ", "-", " ">> \o sRead
    /\ TickDigests[1].message[3] = <<" ", " ", "-", " ">> \o sExercise

-----------------------------------------------------------------------------
(* Time matching *)

DigitValue(c) ==
    CASE c = "0" -> 0 [] c = "1" -> 1 [] c = "2" -> 2 [] c = "3" -> 3
      [] c = "4" -> 4 [] c = "5" -> 5 [] c = "6" -> 6 [] c = "7" -> 7
      [] c = "8" -> 8 [] c = "9" -> 9 [] OTHER -> -1

TwoDigitValue(s, i) == 10 * DigitValue(s[i]) + DigitValue(s[i + 1])

\* s reads "HH:MM AM" or "HH:MM PM" with HH from 01 to 12 and MM below 60
IsCanonical(s) ==
    /\ Len(s) = 8
    /\ \A i \in {1, 2, 4, 5} : DigitValue(s[i]) >= 0
    /\ s[3] = ":" /\ s[6] = " " /\ s[7] \in {"A", "P"} /\ s[8] = "M"
    /\ TwoDigitValue(s, 1) \in 1..12
    /\ TwoDigitValue(s, 4) \in 0..59

\* the minute of the day that a canonical string names
MinuteOfDayNamed(s) ==
    ((TwoDigitValue(s, 1) % 12) + (IF s[7] = "P" THEN 12 ELSE 0)) * MinutesPerHour
        + TwoDigitValue(s, 4)

MinuteOfDay(t) == t % MinutesPerDay

NonCanonicalSkipped ==
    /\ ticks > 0
    /\ MinuteOfDay(current_time) = TimeAt(0, 9, 0)
    /\ \E i \in DOMAIN schedule : schedule[i].time = s900AM
    /\ TickReminders # <<>>
    /\ \A j \in DOMAIN TickReminders : TickReminders[j].time # s900AM

-----------------------------------------------------------------------------
(* Ordering within a tick *)

\* the first row of the schedule that carries the key
RowOf(key) ==
    CHOOSE i \in DOMAIN schedule :
        /\ task_key(schedule[i]) = key
        /\ \A h \in 1..(i - 1) : task_key(schedule[h]) # key

ScheduleKeys == {task_key(schedule[i]) : i \in DOMAIN schedule}

(* C13 Ordering within a tick: in the sends of a tick the digest comes       *)
(* before every reminder; after a refreshing tick the schedule is the one    *)
(* fetched by that tick, every reminder of the tick is for a task of it and  *)
(* notified_tasks holds the keys of the tick's reminders and no older key;   *)
(* the reminders of a tick follow the row order of the schedule; and the     *)
(* sends of one tick are never interleaved with those of another.            *)
OrderingWithinTick ==
    /\ ticks > 0 =>
          /\ \A j \in DOMAIN TickSends :
                TickSends[j].kind = "digest" => j = 1
          /\ refreshed =>
                /\ schedule = fetched.timed
                /\ TickReminderKeys \subseteq ScheduleKeys
                /\ notified_tasks = TickReminderKeys
          /\ \A a, b \in DOMAIN TickReminders :
                a < b => RowOf(TickReminders[a].key) < RowOf(TickReminders[b].key)
    /\ \A a, b \in DOMAIN sent :
          a < b => /\ sent[a].tick <= sent[b].tick
                   /\ sent[a].at <= sent[b].at
    /\ \A j \in DOMAIN sent : sent[j].tick \in 1..ticks

\* a refreshing tick sent the digest and then the two tasks of 09:00 in the
\* order of their rows
OrderingWithinTickWitness ==
    /\ refreshed
    /\ Len(TickSends) = 3
    /\ TickSends[1].kind = "digest"
    /\ TickSends[2].key = task_key([time |-> s0900AM, activity |-> sStandup])
    /\ TickSends[3].key = task_key([time |-> s0900am, activity |-> sReview])

-----------------------------------------------------------------------------
(* C14 NotifiedSet invariant: every key of notified_tasks is the key of a    *)
(* task of the cached schedule for which a send was attempted since the      *)
(* latest refresh, and every task for which a send was attempted since the   *)
(* latest refresh has its key in the set; a tick that does not refresh       *)
(* removes no key, and after a refreshing tick the set holds only keys of    *)
(* sends made by that tick.                                                  *)
NotifiedSetInvariant ==
    /\ notified_tasks \subseteq ScheduleKeys
    /\ \A k \in notified_tasks : RemindersOf(k, refreshes) # {}
    /\ \A j \in DOMAIN sent :
          sent[j].kind = "reminder" /\ sent[j].epoch = refreshes
              => sent[j].key \in notified_tasks
    /\ ticks > 0 /\ ~refreshed => notified_before \subseteq notified_tasks
    /\ ticks > 0 /\ refreshed => notified_tasks \subseteq TickReminderKeys

\* a tick that did not refresh added a key to a set that already held keys,
\* one of them for a send that failed
NotifiedSetWitness ==
    /\ ticks > 0 /\ ~refreshed
    /\ notified_before # {}
    /\ notified_tasks # notified_before
    /\ \E j \in DOMAIN sent :
          /\ ~sent[j].ok /\ sent[j].kind = "reminder"
          /\ sent[j].epoch = refreshes
          /\ sent[j].key \in notified_before

-----------------------------------------------------------------------------
(* C15 Refresh condition: a tick fetches, replaces the schedule, clears      *)
(* notified_tasks and updates last_hour_checked if and only if the hour it   *)
(* read differs from last_hour_checked; a tick that read the same hour       *)
(* fetches nothing, leaves the schedule and last_hour_checked as they were   *)
(* and removes no key from notified_tasks.                                   *)
RefreshIffHourChanged ==
    [][ticks' = ticks + 1 =>
          /\ refreshed' <=> Hour(current_time') # last_hour_checked
          /\ refreshed' =>
                /\ refreshes' = refreshes + 1
                /\ schedule' = fetched'.timed
                /\ last_hour_checked' = Hour(current_time')
                /\ \A k \in notified_tasks' :
                      \E j \in DOMAIN sent' :
                          sent'[j].tick = ticks' /\ sent'[j].key = k
          /\ ~refreshed' =>
                /\ refreshes' = refreshes
                /\ fetched' = fetched /\ fetch_status' = fetch_status
                /\ all_data' = all_data /\ today_str' = today_str
                /\ schedule' = schedule
                /\ last_hour_checked' = last_hour_checked
                /\ notified_tasks \subseteq notified_tasks']_vars

\* started at 23:59: the tick that read 00:00 of the next day refreshed, and
\* the tick after it, still in hour 0, did not
RefreshIffHourChangedWitness ==
    /\ ticks >= 2 /\ ~refreshed /\ refreshes = 1
    /\ Date(current_time) = 1 /\ Hour(current_time) = 0
    /\ last_hour_checked = 0

-----------------------------------------------------------------------------
RunningWithoutClient ==
    pc = "Running" /\ ticks >= 1 /\ gspread_client = None /\ refreshed

-----------------------------------------------------------------------------
(* C17 Schedule and date consistency: after every tick the cached schedule   *)
(* is empty or is the one fetched for the calendar date that the tick read,  *)
(* and every reminder of the tick is for a task of a sheet fetched for that  *)
(* date. Stated for the runs in which the loop never stalled, so that a      *)
(* process suspended for a day is not what refutes it.                       *)
ScheduleDateConsistency ==
    ticks > 0 /\ ~stalled =>
        /\ schedule = <<>> \/ today_str = Date(current_time)
        /\ \A j \in DOMAIN TickReminders :
              today_str = Date(TickReminders[j].at)

\* the initial load asked for the sheet of day 0 at 23:59, line 134 read
\* 00:00 of day 1, and the first tick sent the 12:00 AM task of that sheet
\* on day 1
StaleTaskFires ==
    /\ ticks = 1 /\ ~refreshed /\ ~stalled
    /\ fetch_status = "rows" /\ today_str = 0
    /\ current_time = TimeAt(1, 0, 0)
    /\ \E j \in DOMAIN TickReminders : TickReminders[j].time = s1200AM

-----------------------------------------------------------------------------
(* C18 No digest at start-up: until the first refresh no flexible digest has *)
(* been sent, whatever flexible tasks the initial load returned; the cached  *)
(* schedule is the timed tasks of the initial load, and a task of it whose   *)
(* time a tick observed has been sent.                                       *)
NoDigestAtStartup ==
    refreshes = 0 =>
        /\ \A j \in DOMAIN sent : sent[j].kind # "digest"
        /\ schedule = fetched.timed
        /\ \A i \in Observed :
              /\ task_key(schedule[i]) \in notified_tasks
              /\ RemindersOf(task_key(schedule[i]), 0) # {}

\* the initial load returned flexible tasks, and the first tick, in the hour
\* of the start, sent reminders and no digest
NoDigestAtStartupWitness ==
    /\ refreshes = 0 /\ ticks = 1
    /\ fetched.flexible # <<>>
    /\ TickReminders # <<>>
    /\ TickDigests = <<>>

====
